---- MODULE Spec2Model ----
(***************************************************************************)
(* A model of kivy/selection.py (class Selection) as a state machine.      *)
(*                                                                         *)
(* The object's properties are the variables.  Every public operation of   *)
(* the class is one action, and the methods it calls are operators that    *)
(* take the object's state as a record and return the state they leave,    *)
(* in the order the Python code runs them.  A raised exception is the      *)
(* field err: once set, the rest of the operation is skipped, as Python    *)
(* unwinds the stack, and the state keeps what was done before the raise.  *)
(*                                                                         *)
(* Kivy's property system (kivy.properties, kivy.event) is outside this    *)
(* file: a bound handler runs synchronously when a property is set to a    *)
(* value different from the one it holds, and not otherwise.  The class    *)
(* is a mixin: the create_view that get_view calls is create_proxy, and    *)
(* the get_proxy that check_for_empty_selection calls is get_view.         *)
(*                                                                         *)
(* kivy/uix/drawer.py (class Drawer) is modelled beside it, as a second    *)
(* object with its own variables and actions: on_release and the setters   *)
(* of its sizes.  kivy.animation is outside that file: cancel_all removes  *)
(* the running animations of a property of the widget, start adds one, and *)
(* the clock moves the property towards the target until it is reached.    *)
(***************************************************************************)
EXTENDS Integers, Sequences, FiniteSets, TLC

\* ------------------------------------------------------------------ bounds
\* Number of distinct data items the host owns.
NumItems == 2
\* Longest data list the host supplies.
MaxData == 2
\* Longest list passed to select_list / deselect_list: one entry per view.
MaxList == MaxData
\* Largest selection_limit the host sets.
MaxLimit == 1
\* Largest size, in steps of the animation clock, of the Drawer.
MaxSize == 3

\* Python's None, for a missing data item and for a missing proxy.
None == 0

ItemIds == 1 .. NumItems
\* The longest data list an object is constructed with: one place more than
\* the lists the host supplies later, so that a third view exists beside two
\* selected ones.
MaxViews == MaxData + 1
\* Proxy identities.  An identity is free again once neither the cache nor the
\* selection holds the proxy; an operation creates at most one proxy, so one
\* identity more than the cache has keys is always enough.
ProxyIds == 1 .. (MaxViews + 1)
\* Everything data can hold: the host's items and, after cut_to_sel, proxies.
\* A proxy held as a data item is named by its place in the list cut_to_sel
\* assigned, in one of two ranges of names, so that the proxies assigned by
\* one cut_to_sel never share a name with those data held before it.
Items == 1 .. (NumItems + 2 * MaxData)
Modes == {"none", "single", "multiple"}
Limits == (0 - 1) .. MaxLimit

\* The shapes of data item create_proxy and set_data_item_selection tell
\* apart, one per item, in rotation: a SelectableDataItem (an object with an
\* is_selected attribute is treated the same way), an object with no
\* is_selected at all, a dict with an 'is_selected' key, and an object whose
\* is_selected is a method.  A proxy held as a data item is an object with an
\* is_selected attribute.
ItemKinds == <<"SelectableDataItem", "plain", "dict", "method">>
KindOf(item) ==
    IF item > NumItems THEN "SelectableDataItem"
    ELSE ItemKinds[((item - 1) % Len(ItemKinds)) + 1]

\* --------------------------------------------------------------- variables
VARIABLES
    data,                        \* ListProperty: the data items, in order
    selection,                   \* ListProperty: the selected proxies, in order
    selection_mode,              \* OptionProperty
    allow_empty_selection,       \* BooleanProperty
    selection_limit,             \* NumericProperty
    propagate_selection_to_data, \* BooleanProperty
    cached_views,                \* DictProperty: index -> proxy
    proxies,                     \* the Proxy objects, by identity: index, is_selected
    item_sel,                    \* is_selected of each data item
    op,                          \* the last operation: its name and arguments
    notes,                       \* on_selection_change events the last operation dispatched
    err,                         \* the last operation ended by raising
    ret                          \* the value the last operation returned

\* The Drawer.
VARIABLES
    collapsed,                   \* BooleanProperty
    width,                       \* the widget's width
    collapse_size,               \* AliasProperty of min_size
    expand_size,                 \* AliasProperty of max_size
    animations                   \* the animations running on the widget, oldest first

\* The Drawer's own state.
drawer_vars == <<collapsed, width, collapse_size, expand_size, animations>>

\* The Selection's own state.
selection_vars ==
    <<data, selection, selection_mode, allow_empty_selection, selection_limit,
      propagate_selection_to_data, cached_views, proxies, item_sel, notes, err, ret>>

vars == <<data, selection, selection_mode, allow_empty_selection, selection_limit,
          propagate_selection_to_data, cached_views, proxies, item_sel, op, notes, err,
          ret, collapsed, width, collapse_size, expand_size, animations>>

\* ----------------------------------------------------------------- helpers
Range(seq) == {seq[i] : i \in 1 .. Len(seq)}

\* The dict {} and the assignment d[k] = v.
EmptyDict == [k \in {} |-> None]

setitem(d, k, v) == [i \in DOMAIN d \cup {k} |-> IF i = k THEN v ELSE d[i]]

\* The proxies the object refers to: the cached ones and the selected ones.
LiveOf(cache, sel) == ({cache[i] : i \in DOMAIN cache} \cup Range(sel)) \ {None}

Live == LiveOf(cached_views, selection)

\* A proxy nothing refers to: its identity is free and its fields are gone.
DeadProxy == [index |-> 0, is_selected |-> FALSE]

\* The object's state as one record, as the methods below take and return it.
\* ret is the value the last method called returned; pinned are the proxies
\* alive when the operation starts, fresh those it has created.  Proxies that
\* were dropped by an earlier operation are collected when the next one starts,
\* and so are the proxies data held as items and holds no more.
Cur == [data |-> data, selection |-> selection, selection_mode |-> selection_mode,
        allow_empty_selection |-> allow_empty_selection,
        selection_limit |-> selection_limit,
        propagate_selection_to_data |-> propagate_selection_to_data,
        cached_views |-> cached_views,
        proxies |-> [p \in ProxyIds |-> IF p \in Live THEN proxies[p] ELSE DeadProxy],
        item_sel |-> [i \in Items |-> IF i > NumItems /\ i \notin Range(data)
                                       THEN FALSE ELSE item_sel[i]],
        pinned |-> Live, fresh |-> {},
        notes |-> 0, err |-> FALSE, ret |-> None]

\* The identity of a new Proxy(): the least one no proxy of this operation has.
NewProxy(s) ==
    CHOOSE p \in ProxyIds :
        /\ p \notin s.pinned \cup s.fresh \cup LiveOf(s.cached_views, s.selection)
        /\ \A q \in 1 .. (p - 1) :
               q \in s.pinned \cup s.fresh \cup LiveOf(s.cached_views, s.selection)

\* list.remove(x): drops the first occurrence of x.
RECURSIVE Remove(_, _)
Remove(seq, x) ==
    IF seq = <<>> THEN <<>>
    ELSE IF Head(seq) = x THEN Tail(seq)
    ELSE <<Head(seq)>> \o Remove(Tail(seq), x)

\* self.dispatch('on_selection_change')
dispatch(s) == [s EXCEPT !.notes = @ + 1]

\* ------------------------------------------------------------- the methods
get_data_item(s, index) ==
    IF index < 0 \/ index >= Len(s.data) THEN None ELSE s.data[index + 1]

\* A SelectableDataItem and a dict take the value; an is_selected method is
\* called and nothing is stored; anything else (None included) is left alone.
set_data_item_selection(s, item, value) ==
    IF item = None THEN s
    ELSE IF KindOf(item) \in {"SelectableDataItem", "dict"}
    THEN [s EXCEPT !.item_sel[item] = value]
    ELSE s

select_data_item(s, item) == set_data_item_selection(s, item, TRUE)

deselect_data_item(s, item) == set_data_item_selection(s, item, FALSE)

\* proxy.is_selected = value
set_is_selected(s, proxy, value) == [s EXCEPT !.proxies[proxy].is_selected = value]

\* select_item_proxy with the proxy put at the front of selection.
select_item_proxy_prepends(s, proxy) ==
    IF s.propagate_selection_to_data
    THEN select_data_item(
             [set_is_selected(s, proxy, TRUE) EXCEPT !.selection = <<proxy>> \o @],
             get_data_item(s, s.proxies[proxy].index))
    ELSE [set_is_selected(s, proxy, TRUE) EXCEPT !.selection = <<proxy>> \o @]

select_item_proxy(s, proxy) ==
    IF s.propagate_selection_to_data
    THEN select_data_item(
             [set_is_selected(s, proxy, TRUE) EXCEPT !.selection = Append(@, proxy)],
             get_data_item(s, s.proxies[proxy].index))
    ELSE [set_is_selected(s, proxy, TRUE) EXCEPT !.selection = Append(@, proxy)]

\* deselect_item_proxy without its "proxy.is_selected = False".
deselect_item_proxy_keeps_flag(s, proxy) ==
    IF s.propagate_selection_to_data
    THEN deselect_data_item(
             [s EXCEPT !.selection = Remove(@, proxy)],
             get_data_item(s, s.proxies[proxy].index))
    ELSE [s EXCEPT !.selection = Remove(@, proxy)]

deselect_item_proxy(s, proxy) ==
    IF s.propagate_selection_to_data
    THEN deselect_data_item(
             [set_is_selected(s, proxy, FALSE) EXCEPT !.selection = Remove(@, proxy)],
             get_data_item(s, s.proxies[proxy].index))
    ELSE [set_is_selected(s, proxy, FALSE) EXCEPT !.selection = Remove(@, proxy)]

\* for selected_proxy in self.selection: self.deselect_item_proxy(selected_proxy)
\* Python's list iterator keeps a position i into the list the body shrinks:
\* it stops as soon as i reaches the current length.
RECURSIVE deselect_loop(_, _)
deselect_loop(s, i) ==
    IF i >= Len(s.selection) THEN s
    ELSE deselect_loop(deselect_item_proxy(s, s.selection[i + 1]), i + 1)

RECURSIVE handle_selection(_, _, _)

\* proxy_instance = Proxy(): the new proxy `new`, with its index and
\* is_selected False.
Proxy(s, new, index) ==
    [s EXCEPT !.proxies[new] = [index |-> index, is_selected |-> FALSE],
              !.fresh = @ \cup {new}]

\* create_proxy without its raise: an item with no is_selected is taken to be
\* unselected.
create_proxy_for_no_raise(s, index, item, new) ==
    IF ~s.propagate_selection_to_data
    THEN [Proxy(s, new, index) EXCEPT !.ret = new]
    ELSE IF KindOf(item) # "plain" /\ s.item_sel[item]
    THEN [handle_selection(Proxy(s, new, index), new, FALSE) EXCEPT !.ret = new]
    ELSE [Proxy(s, new, index) EXCEPT !.ret = new]

\* The body of create_proxy for a data item that exists.  With
\* propagate_selection_to_data an item that has no is_selected raises, and one
\* that is selected has its new proxy handed to handle_selection.
create_proxy_for(s, index, item, new) ==
    IF ~s.propagate_selection_to_data
    THEN [Proxy(s, new, index) EXCEPT !.ret = new]
    ELSE IF KindOf(item) = "plain"
    THEN [s EXCEPT !.err = TRUE, !.ret = None]
    ELSE IF s.item_sel[item]
    THEN [handle_selection(Proxy(s, new, index), new, FALSE) EXCEPT !.ret = new]
    ELSE [Proxy(s, new, index) EXCEPT !.ret = new]

\* create_view of the host class is create_proxy.
create_proxy(s, index) ==
    IF get_data_item(s, index) = None
    THEN [s EXCEPT !.ret = None]
    ELSE create_proxy_for(s, index, get_data_item(s, index), NewProxy(s))

\* get_view without its "if item_view:": whatever create_view returns is stored.
cache_view_stores_none(s, index) ==
    IF s.err THEN s
    ELSE [s EXCEPT !.cached_views = setitem(@, index, s.ret)]

\* if item_view: self.cached_views[index] = item_view
cache_view(s, index) ==
    IF s.err THEN s
    ELSE IF s.ret # None THEN [s EXCEPT !.cached_views = setitem(@, index, s.ret)]
    ELSE s

\* get_view without its look into cached_views: every call creates a view.
get_view_always_creates(s, index) == cache_view(create_proxy(s, index), index)

get_view(s, index) ==
    IF index \in DOMAIN s.cached_views
    THEN [s EXCEPT !.ret = s.cached_views[index]]
    ELSE cache_view(create_proxy(s, index), index)

\* check_for_empty_selection asks for get_proxy(0): the cached lookup.
get_proxy(s, index) == get_view(s, index)

\* if proxy is not None: self.handle_selection(proxy)
select_first(s) ==
    IF s.err THEN s
    ELSE IF s.ret # None THEN handle_selection(s, s.ret, FALSE)
    ELSE s

\* check_for_empty_selection that selects nothing.
check_for_empty_selection_skips(s) == s

check_for_empty_selection(s) ==
    IF ~s.allow_empty_selection /\ Len(s.selection) = 0
    THEN select_first(get_proxy(s, 0))
    ELSE s

\* handle_selection, proxy not selected: modes 'none' and 'single' deselect
\* what is selected first.
deselect_others(s) ==
    IF s.selection_mode \in {"none", "single"} /\ Len(s.selection) > 0
    THEN deselect_loop(s, 0)
    ELSE s

\* select_if_allowed with selection_limit checked whatever
\* allow_empty_selection is.
select_if_allowed_limit_always(s, proxy_instance) ==
    IF s.selection_mode # "none"
    THEN IF s.selection_mode = "multiple"
         THEN IF s.selection_limit < 0
              THEN select_item_proxy(s, proxy_instance)
              ELSE IF Len(s.selection) < s.selection_limit
                   THEN select_item_proxy(s, proxy_instance)
                   ELSE s
         ELSE select_item_proxy(s, proxy_instance)
    ELSE s

\* handle_selection, proxy not selected: whether the mode, the policy and the
\* limit let it be selected.
select_if_allowed(s, proxy_instance) ==
    IF s.selection_mode # "none"
    THEN IF s.selection_mode = "multiple"
         THEN IF s.allow_empty_selection
              THEN IF s.selection_limit < 0
                   THEN select_item_proxy(s, proxy_instance)
                   ELSE IF Len(s.selection) < s.selection_limit
                        THEN select_item_proxy(s, proxy_instance)
                        ELSE s
              ELSE select_item_proxy(s, proxy_instance)
         ELSE select_item_proxy(s, proxy_instance)
    ELSE s

\* handle_selection, proxy selected and now deselected.
recheck_empty(s) ==
    IF s.selection_mode # "none" THEN check_for_empty_selection(s) ELSE s

\* if not hold_dispatch: self.dispatch('on_selection_change')
dispatch_unless_held(s, hold_dispatch) ==
    IF s.err THEN s
    ELSE IF ~hold_dispatch THEN dispatch(s)
    ELSE s

handle_selection(s, proxy_instance, hold_dispatch) ==
    dispatch_unless_held(
        IF proxy_instance \notin Range(s.selection)
        THEN select_if_allowed(deselect_others(s), proxy_instance)
        ELSE recheck_empty(deselect_item_proxy(s, proxy_instance)),
        hold_dispatch)

\* delete_cache without its assignment: the cache is kept.
delete_cache_keeps(s) == s

delete_cache(s) == [s EXCEPT !.cached_views = EmptyDict]

initialize_selection(s) ==
    check_for_empty_selection(
        IF Len(s.selection) > 0
        THEN dispatch([s EXCEPT !.selection = <<>>])
        ELSE s)

\* update_for_new_data without its delete_cache().
update_for_new_data_keeps_cache(s) == initialize_selection(s)

update_for_new_data(s) == initialize_selection(delete_cache(s))

selection_mode_changed(s) ==
    IF s.selection_mode = "none"
    THEN deselect_loop(s, 0)
    ELSE check_for_empty_selection(s)

\* for proxy in proxies: self.handle_selection(proxy, hold_dispatch=True)
RECURSIVE handle_each(_, _)
handle_each(s, list) ==
    IF s.err \/ list = <<>> THEN s
    ELSE handle_each(handle_selection(s, Head(list), TRUE), Tail(list))

\* The trailing self.dispatch('on_selection_change') of the list methods.
dispatch_at_end(s) == IF s.err THEN s ELSE dispatch(s)

select_list(s, list, extend) ==
    dispatch_at_end(
        handle_each(IF ~extend THEN [s EXCEPT !.selection = <<>>] ELSE s, list))

deselect_list(s, list) == dispatch_at_end(handle_each(s, list))

\* Python's seq[lo:hi] for lo and hi that are not negative.
Slice(seq, lo, hi) == SubSeq(seq, lo + 1, IF hi > Len(seq) THEN Len(seq) ELSE hi)

min(S) == CHOOSE m \in S : \A n \in S : m <= n

max(S) == CHOOSE m \in S : \A n \in S : m >= n

\* [sel.index for sel in self.selection]
sel_indices(s) == {s.proxies[p].index : p \in Range(s.selection)}

\* self.data = d: the handler bound to data runs if d differs from data.
assign_data(s, d) ==
    IF d = s.data THEN s ELSE update_for_new_data([s EXCEPT !.data = d])

\* trim_left_of_sel with the slice taken one place too far to the right.
trim_left_of_sel_off_by_one(s) ==
    IF Len(s.selection) > 0
    THEN assign_data(s, Slice(s.data, min(sel_indices(s)) + 1, Len(s.data)))
    ELSE s

trim_left_of_sel(s) ==
    IF Len(s.selection) > 0
    THEN assign_data(s, Slice(s.data, min(sel_indices(s)), Len(s.data)))
    ELSE s

trim_right_of_sel(s) ==
    IF Len(s.selection) > 0
    THEN assign_data(s, Slice(s.data, 0, max(sel_indices(s)) + 1))
    ELSE s

trim_to_sel(s) ==
    IF Len(s.selection) > 0
    THEN assign_data(s, Slice(s.data, min(sel_indices(s)), max(sel_indices(s)) + 1))
    ELSE s

\* The name, as a data item, of the k-th selected proxy: in the range of
\* names that data does not use.
ProxyItem(s, k) ==
    IF \E i \in Range(s.data) : i > NumItems /\ i <= NumItems + MaxData
    THEN NumItems + MaxData + k
    ELSE NumItems + k

\* The selected proxies seen as data items: each has the is_selected it has as
\* a proxy.
proxies_as_items(s) ==
    [s EXCEPT !.item_sel =
        [i \in Items |->
            IF \E k \in 1 .. Len(s.selection) : i = ProxyItem(s, k)
            THEN s.proxies[s.selection[i - ProxyItem(s, 0)]].is_selected
            ELSE @[i]]]

\* self.data = self.selection: data is now the list of the selected proxies.
cut_to_sel(s) ==
    IF Len(s.selection) > 0
    THEN assign_data(proxies_as_items(s),
                     [k \in 1 .. Len(s.selection) |-> ProxyItem(s, k)])
    ELSE s

\* ------------------------------------------------------------ the machine
\* The data lists the host supplies: items of its collection, in the
\* collection's order, none twice.
DataChoices ==
    {d \in UNION {[1 .. n -> ItemIds] : n \in 0 .. MaxData} :
        \A i, j \in 1 .. Len(d) : i < j => d[i] < d[j]}

\* The lists the host passes to select_list and deselect_list: views it
\* holds, in any order, none twice.
ProxyLists ==
    {l \in UNION {[1 .. n -> Live] : n \in 0 .. MaxList} :
        \A i, j \in 1 .. Len(l) : i # j => l[i] # l[j]}

\* The record of an operation: the list (of proxies, or of data items for an
\* assignment to data), the extend flag and the index it was called with
\* (empty, False and None where it takes none).
Call(name, list, extend, index) ==
    [name |-> name, list |-> list, extend |-> extend, index |-> index]

\* The operation returns (or raises) and leaves the object in state r.  Of the
\* operations only get_view returns a value; the others return None.
Commit(r, o) ==
    /\ data' = r.data
    /\ selection' = r.selection
    /\ selection_mode' = r.selection_mode
    /\ allow_empty_selection' = r.allow_empty_selection
    /\ selection_limit' = r.selection_limit
    /\ propagate_selection_to_data' = r.propagate_selection_to_data
    /\ cached_views' = r.cached_views
    /\ proxies' = r.proxies
    /\ item_sel' = r.item_sel
    /\ notes' = r.notes
    /\ err' = r.err
    /\ ret' = (IF o.name = "get_view" /\ ~r.err THEN r.ret ELSE None)
    /\ op' = o
    /\ UNCHANGED drawer_vars

\* Selection(**kwargs): the keyword arguments set the properties before the
\* handlers are bound, then update_for_new_data() runs.  A constructor that
\* raises leaves no object.
Constructed(r) ==
    /\ ~r.err
    /\ data = r.data
    /\ selection = r.selection
    /\ selection_mode = r.selection_mode
    /\ allow_empty_selection = r.allow_empty_selection
    /\ selection_limit = r.selection_limit
    /\ propagate_selection_to_data = r.propagate_selection_to_data
    /\ cached_views = r.cached_views
    /\ proxies = r.proxies
    /\ item_sel = r.item_sel
    /\ notes = r.notes
    /\ err = FALSE
    /\ ret = None
    /\ op = Call("__init__", <<>>, FALSE, None)

\* The object after super().__init__(**kwargs): the properties hold the
\* keyword arguments, the others their defaults.
kwargs(d, m, a, l, g) ==
    [data |-> d, selection |-> <<>>, selection_mode |-> m,
     allow_empty_selection |-> a, selection_limit |-> l,
     propagate_selection_to_data |-> g,
     cached_views |-> EmptyDict,
     proxies |-> [p \in ProxyIds |-> DeadProxy],
     item_sel |-> [i \in Items |-> FALSE],
     pinned |-> {}, fresh |-> {},
     notes |-> 0, err |-> FALSE, ret |-> None]

\* The sizes a Drawer is given.
Sizes == 0 .. MaxSize

\* Drawer(**kwargs): width is set to 0 (line 186) and nothing is animated;
\* the keyword arguments set collapsed and the two sizes.
DrawerConstructed(c, lo, hi) ==
    /\ collapsed = c
    /\ width = 0
    /\ collapse_size = lo
    /\ expand_size = hi
    /\ animations = <<>>

\* Drawer() beside the Selection: collapsed by default.
DrawerIdle == DrawerConstructed(TRUE, 0, MaxSize)

Init ==
    /\ DrawerIdle
    /\ \E d \in DataChoices, m \in Modes, a \in BOOLEAN, l \in Limits, g \in BOOLEAN :
          Constructed(update_for_new_data(kwargs(d, m, a, l, g)))

\* A data list of MaxViews places: the host's items in rotation (a list may
\* hold an item more than once).
WideData == [i \in 1 .. MaxViews |-> ((i - 1) % NumItems) + 1]

\* Selection(data=WideData, **kwargs)
InitWide ==
    /\ DrawerIdle
    /\ \E m \in Modes, a \in BOOLEAN, l \in Limits, g \in BOOLEAN :
          Constructed(update_for_new_data(kwargs(WideData, m, a, l, g)))

\* self.data = d: the data handler runs when the value changes.
SetData ==
    \E d \in DataChoices :
        /\ d # data
        /\ Commit(update_for_new_data([Cur EXCEPT !.data = d]),
                  Call("set_data", d, FALSE, None))

\* self.selection_mode = m
SetSelectionMode ==
    \E m \in Modes :
        /\ m # selection_mode
        /\ Commit(selection_mode_changed([Cur EXCEPT !.selection_mode = m]),
                  Call("set_selection_mode", <<>>, FALSE, None))

\* self.allow_empty_selection = a
SetAllowEmptySelection ==
    \E a \in BOOLEAN :
        /\ a # allow_empty_selection
        /\ Commit(check_for_empty_selection([Cur EXCEPT !.allow_empty_selection = a]),
                  Call("set_allow_empty_selection", <<>>, FALSE, None))

\* self.selection_limit = l: no handler is bound to it.
SetSelectionLimit ==
    \E l \in Limits :
        /\ l # selection_limit
        /\ Commit([Cur EXCEPT !.selection_limit = l],
                  Call("set_selection_limit", <<>>, FALSE, None))

\* self.propagate_selection_to_data = g: no handler is bound to it.
SetPropagate ==
    \E g \in BOOLEAN :
        /\ g # propagate_selection_to_data
        /\ Commit([Cur EXCEPT !.propagate_selection_to_data = g],
                  Call("set_propagate", <<>>, FALSE, None))

\* The host asks for the view of an index, in range or one off either end.
GetView ==
    \E index \in (0 - 1) .. Len(data) :
        Commit(get_view(Cur, index),
               Call("get_view", <<>>, FALSE, index))

\* on_release of a proxy: handle_selection(proxy)
HandleSelection ==
    \E p \in Live :
        Commit(handle_selection(Cur, p, FALSE),
               Call("handle_selection", <<p>>, FALSE, None))

SelectList ==
    \E list \in ProxyLists, extend \in BOOLEAN :
        Commit(select_list(Cur, list, extend),
               Call("select_list", list, extend, None))

DeselectList ==
    \E list \in ProxyLists :
        Commit(deselect_list(Cur, list),
               Call("deselect_list", list, FALSE, None))

TrimLeftOfSel ==
    \E s \in {Cur} :
        Commit(trim_left_of_sel(s), Call("trim_left_of_sel", <<>>, FALSE, None))

TrimRightOfSel ==
    \E s \in {Cur} :
        Commit(trim_right_of_sel(s), Call("trim_right_of_sel", <<>>, FALSE, None))

TrimToSel ==
    \E s \in {Cur} :
        Commit(trim_to_sel(s), Call("trim_to_sel", <<>>, FALSE, None))

CutToSel ==
    \E s \in {Cur} :
        Commit(cut_to_sel(s), Call("cut_to_sel", <<>>, FALSE, None))

\* The object driven through its properties, its views and its selection
\* methods; the truncation helpers are driven by NextTrim below.
Next ==
    \/ SetData
    \/ SetSelectionMode
    \/ SetAllowEmptySelection
    \/ SetSelectionLimit
    \/ SetPropagate
    \/ GetView
    \/ HandleSelection
    \/ SelectList
    \/ DeselectList

Spec == Init /\ [][Next]_vars

\* The object driven by toggles alone: the data it was built with, views
\* asked for, proxies released, and the mode and policy properties set.
NextToggle ==
    \/ SetSelectionMode
    \/ SetAllowEmptySelection
    \/ SetSelectionLimit
    \/ SetPropagate
    \/ GetView
    \/ HandleSelection

SpecToggle == Init /\ [][NextToggle]_vars

\* The object with propagate_selection_to_data as it was constructed.
NextAsBuilt ==
    \/ SetData
    \/ SetSelectionMode
    \/ SetAllowEmptySelection
    \/ SetSelectionLimit
    \/ GetView
    \/ HandleSelection
    \/ SelectList
    \/ DeselectList

SpecAsBuilt == Init /\ [][NextAsBuilt]_vars

\* An object constructed with the list of MaxViews places and driven by
\* toggles alone.
SpecWide == InitWide /\ [][NextToggle]_vars

\* The object driven by its selection methods, with the properties it was
\* constructed with: views asked for, proxies released, lists selected and
\* deselected.
NextSelect ==
    \/ GetView
    \/ HandleSelection
    \/ SelectList
    \/ DeselectList

SpecSelect == Init /\ [][NextSelect]_vars

\* The object driven by its data: data replaced, views asked for, proxies
\* released, and the policy and propagation properties set.
NextData ==
    \/ SetData
    \/ SetAllowEmptySelection
    \/ SetPropagate
    \/ GetView
    \/ HandleSelection

SpecData == Init /\ [][NextData]_vars

\* The object driven by its truncation helpers: data supplied, views asked
\* for, proxies released, and data cut down to the selection.
NextTrim ==
    \/ SetData
    \/ GetView
    \/ HandleSelection
    \/ TrimLeftOfSel
    \/ TrimRightOfSel
    \/ TrimToSel
    \/ CutToSel

SpecTrim == Init /\ [][NextTrim]_vars

\* ------------------------------------------------------------- the Drawer
\* The Drawer's state as a record.
CurDrawer ==
    [collapsed |-> collapsed, width |-> width, collapse_size |-> collapse_size,
     expand_size |-> expand_size, animations |-> animations]

\* Animation(width=target, d=.5, t=t): an animation of one property.
Animation(prop, target, t) == [prop |-> prop, target |-> target, t |-> t]

\* Animation.cancel_all(widget, prop): no animation of prop is left running.
cancel_all(w, prop) ==
    [w EXCEPT !.animations = SelectSeq(@, LAMBDA a : a.prop # prop)]

\* animation.start(widget): the animation runs from now on.
start(w, a) == [w EXCEPT !.animations = Append(@, a)]

\* on_release without the cancel_all of line 192.
on_release_no_cancel(w) ==
    [start(w, IF w.collapsed
              THEN Animation("width", w.expand_size, "out_quad")
              ELSE Animation("width", w.collapse_size, "in_quad"))
        EXCEPT !.collapsed = ~w.collapsed]

\* Drawer.on_release: the running width animations are cancelled, one is
\* started towards expand_size if collapsed and towards collapse_size if
\* not, and then collapsed is negated.
on_release(w) ==
    [start(cancel_all(w, "width"),
           IF w.collapsed
           THEN Animation("width", w.expand_size, "out_quad")
           ELSE Animation("width", w.collapse_size, "in_quad"))
        EXCEPT !.collapsed = ~w.collapsed]

\* One step of the clock towards a target.
step_toward(x, target) ==
    IF x < target THEN x + 1 ELSE IF x > target THEN x - 1 ELSE x

\* seq without its i-th place.
without(seq, i) == SubSeq(seq, 1, i - 1) \o SubSeq(seq, i + 1, Len(seq))

\* The clock runs the i-th animation for one step: width moves towards the
\* target, and an animation that has reached it is over.
tick(w, i) ==
    [w EXCEPT !.width = step_toward(w.width, w.animations[i].target),
              !.animations =
                  IF step_toward(w.width, w.animations[i].target) = w.animations[i].target
                  THEN without(@, i) ELSE @]

\* The Drawer is left in state w by operation o; the Selection is untouched.
DrawerCommit(w, o) ==
    /\ collapsed' = w.collapsed
    /\ width' = w.width
    /\ collapse_size' = w.collapse_size
    /\ expand_size' = w.expand_size
    /\ animations' = w.animations
    /\ op' = o
    /\ UNCHANGED selection_vars

\* The handle of the Drawer is released.
OnRelease ==
    \E w \in {CurDrawer} :
        DrawerCommit(on_release(w), Call("on_release", <<>>, FALSE, None))

\* self.collapse_size = v (the setter of lines 140-141)
SetCollapseSize ==
    \E v \in Sizes \ {collapse_size} :
        DrawerCommit([CurDrawer EXCEPT !.collapse_size = v],
                     Call("set_collapse_size", <<>>, FALSE, v))

\* self.expand_size = v (the setter of lines 156-157)
SetExpandSize ==
    \E v \in Sizes \ {expand_size} :
        DrawerCommit([CurDrawer EXCEPT !.expand_size = v],
                     Call("set_expand_size", <<>>, FALSE, v))

\* The clock runs one of the running animations for one step.
Tick ==
    \E i \in 1 .. Len(animations) :
        DrawerCommit(tick(CurDrawer, i), Call("tick", <<>>, FALSE, None))

\* Drawer(collapsed=c, collapse_size=lo, expand_size=hi), beside a Selection
\* with no data.
InitDrawer ==
    /\ \E c \in BOOLEAN, lo \in Sizes, hi \in Sizes : DrawerConstructed(c, lo, hi)
    /\ Constructed(update_for_new_data(kwargs(<<>>, "single", TRUE, 0 - 1, FALSE)))

NextDrawer ==
    \/ OnRelease
    \/ SetCollapseSize
    \/ SetExpandSize
    \/ Tick

SpecDrawer == InitDrawer /\ [][NextDrawer]_vars

\* ------------------------------------------------------------- properties
Selected == Range(selection)

\* C1: whenever selection_mode is 'none', selection is empty.
C1_NoneModeEmpty == selection_mode = "none" => selection = <<>>

\* C2: whenever selection_mode is 'single', selection holds at most one proxy.
C2_SingleAtMostOne == selection_mode = "single" => Len(selection) <= 1

\* C3: whenever selection_mode is 'multiple' and selection_limit is L >= 0,
\* selection holds at most L proxies, whatever allow_empty_selection is.
C3_LimitRespected ==
    (selection_mode = "multiple" /\ selection_limit >= 0)
        => Len(selection) <= selection_limit

\* C4: with allow_empty_selection false and data not empty, selection is not
\* empty after every completed operation that could empty it, in every mode.
C4_NeverEmpty ==
    (/\ ~allow_empty_selection
     /\ Len(data) >= 1
     /\ ~err
     /\ op.name \in {"set_data", "handle_selection", "deselect_list", "select_list",
                     "set_selection_mode", "set_allow_empty_selection"})
        => Len(selection) >= 1

\* C5: after any sequence of toggles, in every mode, a proxy is in selection
\* if and only if its is_selected flag is true.
C5_FlagIffSelected ==
    \A p \in ProxyIds : (p \in Selected) <=> proxies[p].is_selected

\* A toggle has just selected one proxy while another one that was selected
\* before has been deselected by it.
C5_Witness ==
    /\ op.name = "handle_selection"
    /\ ~err
    /\ \E p, q \in Live :
          /\ p # q
          /\ op.list = <<p>>
          /\ p \in Selected /\ proxies[p].is_selected
          /\ q \notin Selected /\ ~proxies[q].is_selected
          /\ proxies[q].index = 0 /\ selection_mode = "single"

\* C6: a toggle that returns has dispatched exactly one on_selection_change.
C6_ToggleNotifiesOnce ==
    (op.name = "handle_selection" /\ ~err) => notes = 1

\* C7: select_list and deselect_list dispatch exactly one on_selection_change,
\* the trailing one; the toggles inside dispatch none.
C7_BatchNotifiesOnce ==
    (op.name \in {"select_list", "deselect_list"} /\ ~err) => notes = 1

\* C8: an operation that returns with selection changed has dispatched at
\* least one on_selection_change.
C8_ChangeIsNotified ==
    [][(~err' /\ selection' # selection) => notes' >= 1]_vars

\* C9: select_list([a, b], extend=True) called twice in a row, with nothing in
\* between, leaves the selection the first call left.
C9_SelectListIdempotent ==
    [][(/\ op.name = "select_list" /\ op.extend /\ ~err
        /\ Len(op.list) = 2
        /\ op' = op /\ ~err')
          => selection' = selection]_vars

\* C10: deselect_list leaves no proxy of its argument selected: one that was
\* not selected is not made selected, one that was selected is deselected.
C10_DeselectListDeselects ==
    [][(op'.name = "deselect_list" /\ ~err')
          => \A p \in Range(op'.list) :
                /\ p \notin Selected => p \notin Range(selection')
                /\ p \in Selected => p \notin Range(selection')]_vars

\* C11: after an assignment to data that update_for_new_data handles, data is
\* the list assigned, the cache holds no proxy that existed before, selection
\* holds no proxy that was selected before, and selection is empty or is
\* exactly the proxy of index 0 of the new data, the latter only with
\* allow_empty_selection false and data not empty.
C11_NewDataResets ==
    [][op'.name = "set_data"
          => /\ data' = op'.list
             /\ \A i \in DOMAIN cached_views' : cached_views'[i] \notin Live
             /\ Range(selection') \cap Selected = {}
             /\ \/ selection' = <<>>
                \/ /\ ~allow_empty_selection'
                   /\ Len(data') > 0
                   /\ 0 \in DOMAIN cached_views'
                   /\ selection' = <<cached_views'[0]>>
                   /\ proxies'[cached_views'[0]].index = 0]_vars

\* Data has just been replaced by a two-item list whose first item was marked
\* selected, and the new proxy of index 0 is the selection.
C11_Witness ==
    /\ op.name = "set_data" /\ ~err
    /\ Len(data) = 2 /\ op.list = data
    /\ propagate_selection_to_data /\ item_sel[data[1]]
    /\ DOMAIN cached_views = {0}
    /\ selection = <<cached_views[0]>>
    /\ notes >= 2

\* C12: get_view of an index below 0 or not below len(data) returns None,
\* raises nothing and leaves data, selection and cached_views as they were:
\* no key is added to the cache, not even one holding None.
C12_OutOfRangeIsNone ==
    [][(op'.name = "get_view" /\ (op'.index < 0 \/ op'.index >= Len(data)))
          => /\ ret' = None
             /\ ~err'
             /\ data' = data
             /\ selection' = selection
             /\ cached_views' = cached_views]_vars

\* The view one past the end of a one-item list has just been asked for,
\* while the view of index 0 is cached and selected.
C12_Witness ==
    /\ op.name = "get_view" /\ op.index = Len(data) /\ Len(data) = 1
    /\ ret = None /\ ~err
    /\ DOMAIN cached_views = {0}
    /\ selection = <<cached_views[0]>>

\* The case of C13: get_view is called with an in-range index whose data item
\* has no is_selected in any form.
C13_Unselectable ==
    /\ op'.name = "get_view"
    /\ op'.index >= 0 /\ op'.index < Len(data)
    /\ KindOf(data[op'.index + 1]) = "plain"

\* The outcome of C13: the call raised and left data, selection and
\* cached_views as they were.
C13_Failed ==
    /\ err'
    /\ data' = data
    /\ selection' = selection
    /\ cached_views' = cached_views

\* C13 as stated: with propagate_selection_to_data, get_view of an in-range
\* index whose item has no is_selected in any form raises, adds nothing to
\* cached_views and changes neither selection nor data; without
\* propagate_selection_to_data the call does not raise.
C13_UnselectableAlwaysFails ==
    [][C13_Unselectable
          => IF propagate_selection_to_data THEN C13_Failed ELSE ~err']_vars

\* C13 amended: the call raises as stated when cached_views has no proxy for
\* the index; when it has one, or without propagate_selection_to_data, the
\* call does not raise.
C13_UncachedUnselectableFails ==
    [][C13_Unselectable
          => IF propagate_selection_to_data /\ op'.index \notin DOMAIN cached_views
             THEN C13_Failed
             ELSE ~err']_vars

\* get_view of index 1 has just raised for an item with no is_selected, with
\* the view of index 0 cached and selected.
C13_Witness ==
    /\ op.name = "get_view" /\ op.index = 1 /\ err
    /\ propagate_selection_to_data
    /\ Len(data) = 2 /\ KindOf(data[2]) = "plain"
    /\ DOMAIN cached_views = {0}
    /\ selection = <<cached_views[0]>>

\* The smallest and the largest index of the selected proxies.
MinSel == min({proxies[p].index : p \in Selected})

MaxSel == max({proxies[p].index : p \in Selected})

C15_CutKeepsSelectedItems ==
    [][(op'.name = "cut_to_sel" /\ selection # <<>>)
          => /\ Range(data') = {data[proxies[p].index + 1] : p \in Selected}
             /\ Len(data') = Len(selection)]_vars

\* C16: with propagate_selection_to_data, for every proxy in cached_views or
\* in selection, the is_selected of the data item at the proxy's index equals
\* the proxy's is_selected.
C16_ItemMirrorsProxy ==
    propagate_selection_to_data
        => \A p \in Live :
              (/\ proxies[p].index < Len(data)
               /\ KindOf(data[proxies[p].index + 1]) # "plain")
                  => item_sel[data[proxies[p].index + 1]] = proxies[p].is_selected

\* The place of a proxy in a list that holds it.
Pos(seq, x) == CHOOSE i \in 1 .. Len(seq) : seq[i] = x

\* The proxies an operation finds selected and is not asked to toggle: none
\* for select_list with extend=False, which starts by emptying selection.
C17_Kept ==
    IF op'.name = "select_list" /\ ~op'.extend THEN {}
    ELSE Selected \ Range(op'.list)

C18_SingleReplaces ==
    [][(op'.name = "handle_selection" /\ ~err' /\ selection_mode = "single")
          => /\ op'.list[1] \notin Selected
                   => /\ selection' = op'.list
                      /\ \A q \in LiveOf(cached_views', selection') :
                             q # op'.list[1] => ~proxies'[q].is_selected
             /\ (allow_empty_selection /\ op = op' /\ selection = op.list)
                   => selection' = <<>>]_vars

C20_LastOneReselectsFirst ==
    [][(/\ op'.name = "handle_selection" /\ ~err'
        /\ ~allow_empty_selection
        /\ selection_mode \in {"single", "multiple"}
        /\ Len(data) >= 1
        /\ selection = op'.list)
          => /\ 0 \in DOMAIN cached_views'
             /\ selection' = <<cached_views'[0]>>
             /\ proxies'[selection'[1]].index = 0
             /\ proxies'[selection'[1]].is_selected
             /\ proxies[op'.list[1]].index = 0 => selection' = op'.list
             /\ proxies[op'.list[1]].index # 0
                   => /\ op'.list[1] \notin Range(selection')
                      /\ ~proxies'[op'.list[1]].is_selected]_vars

\* A toggle has just deselected the proxy of index 1, the only one selected,
\* and the proxy of index 0 has been selected in its place.
C20_Witness ==
    /\ op.name = "handle_selection" /\ ~err
    /\ ~allow_empty_selection
    /\ selection_mode \in {"single", "multiple"}
    /\ proxies[op.list[1]].index = 1
    /\ ~proxies[op.list[1]].is_selected
    /\ 0 \in DOMAIN cached_views
    /\ selection = <<cached_views[0]>>
    /\ notes = 2

\* The case of C21: a truncation helper is called with a selection that is
\* not empty.
C21_Truncates ==
    /\ op'.name \in {"trim_left_of_sel", "trim_right_of_sel", "trim_to_sel",
                     "cut_to_sel"}
    /\ selection # <<>>

\* The outcome of C21: what an assignment to data leaves: no earlier proxy in
\* cached_views, no proxy selected before in selection, and selection empty
\* or, without allow_empty_selection, exactly the proxy of index 0.
C21_Reset ==
    /\ \A i \in DOMAIN cached_views' : cached_views'[i] \notin Live
    /\ Range(selection') \cap Selected = {}
    /\ \/ selection' = <<>>
       \/ /\ ~allow_empty_selection'
          /\ 0 \in DOMAIN cached_views'
          /\ selection' = <<cached_views'[0]>>
          /\ proxies'[cached_views'[0]].index = 0

C22_InRange ==
    /\ op'.name = "get_view"
    /\ op'.index >= 0 /\ op'.index < Len(data)

\* C22, the cache between two replacements of data: an operation that leaves
\* data as it was keeps every entry of cached_views, a call of get_view for
\* a cached index returns the cached proxy and creates none, a call for an
\* index that is not cached stores under that index a proxy that did not
\* exist before and returns it, and every key is an in-range index of data.
C22_CacheKept ==
    /\ data' = data
          => \A i \in DOMAIN cached_views :
                i \in DOMAIN cached_views' /\ cached_views'[i] = cached_views[i]
    /\ (C22_InRange /\ op'.index \in DOMAIN cached_views)
          => /\ ret' = cached_views[op'.index]
             /\ cached_views' = cached_views
             /\ ~err'
    /\ (C22_InRange /\ op'.index \notin DOMAIN cached_views /\ ~err')
          => /\ ret' \in ProxyIds \ Live
             /\ cached_views' = setitem(cached_views, op'.index, ret')
             /\ proxies'[ret'].index = op'.index
    /\ \A i \in DOMAIN cached_views' : i >= 0 /\ i < Len(data')

\* C22 as stated: between two replacements of data the view of an in-range
\* index is created at most once.  get_view creates one exactly when the
\* index is not cached, so every call for an in-range index has to leave the
\* index cached, and the cache has to be kept as above.
C22_CreatedAtMostOnce ==
    [][/\ C22_CacheKept
       /\ C22_InRange => op'.index \in DOMAIN cached_views']_vars

\* C22 amended: as stated for the calls that return; a call that raises for a
\* data item with no is_selected stores nothing, and the next call for that
\* index creates a view again.
C22_CreatedOncePerSuccess ==
    [][/\ C22_CacheKept
       /\ C22_InRange
             => IF err'
                THEN cached_views' = cached_views
                ELSE op'.index \in DOMAIN cached_views']_vars

\* get_view of index 1 has just returned the proxy cached under 1, beside the
\* proxy cached under 0.
C22_Witness ==
    /\ op.name = "get_view" /\ op.index = 1 /\ ~err
    /\ DOMAIN cached_views = {0, 1}
    /\ ret = cached_views[1]
    /\ proxies[ret].index = 1
    /\ cached_views[0] # cached_views[1]

\* The operations of C23 that clear selection: select_list without extend
\* and an assignment of a new list to data.
C23_Clears ==
    \/ op'.name = "select_list" /\ ~op'.extend
    \/ op'.name = "set_data" /\ data' # data

\* The data items that a member of selection stands for after the operation.
C23_ItemsSelectedAfter ==
    {data'[proxies'[q].index + 1] :
        q \in {x \in Range(selection') : proxies'[x].index < Len(data')}}

\* C23: a proxy that select_list without extend or a replacement of data
\* drops from selection has its is_selected reset to False, and with
\* propagate_selection_to_data so has its data item, unless a proxy that is
\* selected afterwards stands for that item.
C23_DroppedAreReset ==
    [][C23_Clears
         => \A p \in Selected \ Range(selection') :
               /\ ~proxies'[p].is_selected
               /\ (/\ propagate_selection_to_data'
                   /\ proxies[p].index < Len(data)
                   /\ KindOf(data[proxies[p].index + 1]) # "plain"
                   /\ data[proxies[p].index + 1] \notin C23_ItemsSelectedAfter)
                     => ~item_sel'[data[proxies[p].index + 1]]]_vars

\* C24, the Drawer: at most one width animation is running at any time, and
\* every on_release negates collapsed and leaves exactly one animation
\* running, whatever ran before: a width animation that starts at the width
\* the Drawer has and whose target is expand_size if collapsed is now False
\* and collapse_size if it is now True.  Two releases in a row negate
\* collapsed twice, which brings it back.
C24_OneAnimationTowardsState ==
    /\ [](Len(SelectSeq(animations, LAMBDA a : a.prop = "width")) <= 1)
    /\ [][op'.name = "on_release"
            => /\ collapsed' = ~collapsed
               /\ Len(animations') = 1
               /\ animations'[1].prop = "width"
               /\ animations'[1].target =
                     (IF collapsed' THEN collapse_size' ELSE expand_size')
               /\ width' = width]_vars

\* The handle was released while the Drawer was still opening: it is
\* collapsed again, part of the way out, and the one animation that runs
\* takes it back to collapse_size.
C24_Witness ==
    /\ op.name = "on_release"
    /\ collapsed
    /\ width > collapse_size /\ width < expand_size
    /\ Len(animations) = 1
    /\ animations[1].target = collapse_size

====
